---- MODULE Spec2Model ----
(***************************************************************************)
(* PR reporter: the monolithic reporter (RunReport) and the modular        *)
(* middletier reporter (cmd/middletier/main.go with internal/github,       *)
(* internal/jira and internal/slack), modelled as one state machine.       *)
(*                                                                         *)
(* Text that the code inspects (user names, labels, titles, ticket status) *)
(* is a sequence of one-character strings, so that case folding, trimming, *)
(* substring search and the ticket pattern are computed as the code        *)
(* computes them.  Opaque values (tokens, URLs, channel names, chat IDs)   *)
(* are TLA+ strings, compared only for equality and emptiness.             *)
(***************************************************************************)
EXTENDS Integers, Sequences, FiniteSets, TLC

(***************************************************************************)
(* Strings                                                                 *)
(***************************************************************************)

\* A nil pointer of the Go client libraries (*string, *User, Fields, ...).
NIL == <<"nil">>

UpperChars == <<"A","B","C","D","E","F","G","H","I","J","K","L","M",
                "N","O","P","Q","R","S","T","U","V","W","X","Y","Z">>
LowerChars == <<"a","b","c","d","e","f","g","h","i","j","k","l","m",
                "n","o","p","q","r","s","t","u","v","w","x","y","z">>
DigitChars == {"0","1","2","3","4","5","6","7","8","9"}
SpaceChars == {" ", "\t", "\n"}

\* unicode.ToLower on the upper-case letters.
LowerOf ==
  [c \in { UpperChars[i] : i \in 1..Len(UpperChars) } |->
     LowerChars[CHOOSE i \in 1..Len(UpperChars) : UpperChars[i] = c]]

ToLowerChar(c) == IF c \in DOMAIN LowerOf THEN LowerOf[c] ELSE c

\* strings.ToLower
ToLower(s) == [i \in 1..Len(s) |-> ToLowerChar(s[i])]

\* strings.EqualFold
EqualFold(a, b) ==
  /\ Len(a) = Len(b)
  /\ \A i \in 1..Len(a) : ToLowerChar(a[i]) = ToLowerChar(b[i])

\* strings.Contains
Contains(s, sub) ==
  \E i \in 1..(Len(s) - Len(sub) + 1) :
    \A j \in 1..Len(sub) : s[i + j - 1] = sub[j]

\* strings.TrimSpace
TrimSpace(s) ==
  LET keep == {i \in 1..Len(s) : s[i] \notin SpaceChars}
  IN IF keep = {} THEN <<>>
     ELSE SubSeq(s, CHOOSE i \in keep : \A j \in keep : i <= j,
                    CHOOSE i \in keep : \A j \in keep : j <= i)

\* regexp `PREFIX-\d+`, FindStringSubmatch(...)[0]: the leftmost match, its
\* digits taken greedily; <<>> when the title has no match.
MatchesAt(title, prefix, i) ==
  /\ i + Len(prefix) <= Len(title)
  /\ SubSeq(title, i, i + Len(prefix) - 1) = prefix
  /\ title[i + Len(prefix)] \in DigitChars

FindTicket(title, prefix) ==
  LET starts == {i \in 1..Len(title) : MatchesAt(title, prefix, i)}
  IN IF starts = {} THEN <<>>
     ELSE LET s == CHOOSE i \in starts : \A j \in starts : i <= j
              d == s + Len(prefix)
              e == CHOOSE k \in d..Len(title) :
                     /\ \A j \in d..k : title[j] \in DigitChars
                     /\ (k = Len(title) \/ title[k + 1] \notin DigitChars)
          IN SubSeq(title, s, e)

(***************************************************************************)
(* String constants of the program                                         *)
(***************************************************************************)

sPoker       == <<"P","o","k","e","r">>
sPokerPrefix == <<"P","O","K","E","R","-">>
sScrumPrefix == <<"S","C","R","U","M","-">>
sBlock       == <<"b","l","o","c","k">>
sImpediment  == <<"i","m","p","e","d","i","m","e","n","t">>
sPause       == <<"p","a","u","s","e">>
sNotFound    == <<"N","o","t"," ","F","o","u","n","d">>
sTicketNotFound == <<"T","i","c","k","e","t"," ","n","o","t"," ","f","o","u","n","d">>
sError       == <<"E","r","r","o","r">>
sErrorColon  == <<"E","r","r","o","r",":"," ">>
sUnknown     == <<"U","n","k","n","o","w","n">>
sNoStatus    == <<"N","o"," ","S","t","a","t","u","s">>
sNoData      == <<"N","o"," ","D","a","t","a">>
sNoDescriptionJira == <<"N","o"," ","D","e","s","c","r","i","p","t","i","o","n">>
sNoDescription     == <<"N","o"," ","d","e","s","c","r","i","p","t","i","o","n">>
sUnassigned  == <<"u","n","a","s","s","i","g","n","e","d">>
sNA          == <<"N","/","A">>
\* The error texts of FetchTicketInfo.
sTicketIDRequired ==
  <<"t","i","c","k","e","t"," ","I","D"," ","i","s"," ","r","e","q","u","i",
    "r","e","d">>
sCredsNotConfigured ==
  <<"J","I","R","A"," ","c","r","e","d","e","n","t","i","a","l","s"," ","n",
    "o","t"," ","f","u","l","l","y"," ","c","o","n","f","i","g","u","r","e",
    "d">>
sClientErrorPAT ==
  <<"e","r","r","o","r"," ","c","r","e","a","t","i","n","g"," ","J","I","R",
    "A"," ","c","l","i","e","n","t"," ","w","i","t","h"," ","P","A","T",":",
    " ">>
sClientErrorBasic ==
  <<"e","r","r","o","r"," ","c","r","e","a","t","i","n","g"," ","J","I","R",
    "A"," ","c","l","i","e","n","t"," ","w","i","t","h"," ","B","a","s","i",
    "c"," ","a","u","t","h",":"," ">>
sFetchError ==
  <<"e","r","r","o","r"," ","f","e","t","c","h","i","n","g"," ","J","I","R",
    "A"," ","t","i","c","k","e","t"," ">>
sColonSpace  == <<":"," ">>

\* PerPage of the open-PR listing request.
PerPage == 100

(***************************************************************************)
(* PR Collector, modular: internal/github FetchPRs                         *)
(*                                                                         *)
(* A pull request of the code host is                                      *)
(*   [Number, Title, User, Assignee, Draft, Labels]                        *)
(* where Title, User, Assignee and each label name may be NIL.             *)
(***************************************************************************)

\* A different allow-list loop: a partial match, as for labels, and no skip
\* of blank entries.
AuthorAllowed_Partial(allowedUsers, login) ==
  \E i \in 1..Len(allowedUsers) :
    Contains(ToLower(login), ToLower(TrimSpace(allowedUsers[i])))

\* The allow-list loop: entries are trimmed, blank entries never match.
AuthorAllowed(allowedUsers, login) ==
  \E i \in 1..Len(allowedUsers) :
    LET allowedUser == TrimSpace(allowedUsers[i])
    IN allowedUser # <<>> /\ EqualFold(allowedUser, login)

\* A different label loop: any named label passes, the terms are not compared.
HasMatchingLabel_AnyLabel(labels, filter) ==
  \E i \in 1..Len(labels) : labels[i] # NIL

\* Case-insensitive partial match of some label against some filter term.
HasMatchingLabel(labels, filter) ==
  \E i \in 1..Len(labels) :
    /\ labels[i] # NIL
    /\ \E j \in 1..Len(filter) :
         Contains(ToLower(labels[i]), ToLower(filter[j]))

FetchPRsKeeps(pr, opts) ==
  /\ pr.User # NIL
  /\ (Len(opts.AllowedUsers) > 0 => AuthorAllowed(opts.AllowedUsers, pr.User))
  /\ (Len(opts.Labels) > 0 => HasMatchingLabel(pr.Labels, opts.Labels))

\* Nil-pointer dereferences: the debug log lines read *pr.Title, *pr.User.Login
\* and *label.Name before any nil check; the result literal reads *pr.Title.
DebugLogPanics(pr) ==
  \/ pr.Title = NIL
  \/ pr.User = NIL
  \/ \E i \in 1..Len(pr.Labels) : pr.Labels[i] = NIL

FetchPRsPanics(pr, opts) ==
  \/ opts.DebugMode /\ DebugLogPanics(pr)
  \/ FetchPRsKeeps(pr, opts) /\ pr.Title = NIL

NonNilLabels(labels) == SelectSeq(labels, LAMBDA l : l # NIL)

ExtractTicket(title, prefix) ==
  IF title = NIL THEN <<>> ELSE FindTicket(title, prefix)

MakePRResult(pr) ==
  [Number     |-> pr.Number,
   Title      |-> pr.Title,
   Assignee   |-> IF pr.Assignee = NIL THEN <<>> ELSE pr.Assignee,
   JiraTicket |-> ExtractTicket(pr.Title, sPokerPrefix),
   IsDraft    |-> pr.Draft,
   Labels     |-> NonNilLabels(pr.Labels),
   Author     |-> pr.User]

\* A different filter loop: each kept PR is put in front of the result.
FetchPRsLoop_Prepending(allPRs, opts) ==
  LET kept == SelectSeq(allPRs, LAMBDA pr : FetchPRsKeeps(pr, opts))
  IN [i \in 1..Len(kept) |-> MakePRResult(kept[Len(kept) + 1 - i])]

\* The filter loop over the listed page, in listing order.
FetchPRsLoop(allPRs, opts) ==
  LET kept == SelectSeq(allPRs, LAMBDA pr : FetchPRsKeeps(pr, opts))
  IN [i \in 1..Len(kept) |-> MakePRResult(kept[i])]

FetchPRsLoopPanics(allPRs, opts) ==
  \E i \in 1..Len(allPRs) : FetchPRsPanics(allPRs[i], opts)

(***************************************************************************)
(* PR Collector, monolithic: the loop of FetchPullRequests                 *)
(***************************************************************************)

HasPokerLabel(labels) ==
  \E i \in 1..Len(labels) : labels[i] # NIL /\ EqualFold(labels[i], sPoker)

MonoKeeps(pr, allowedUsers) ==
  /\ pr.User # NIL
  /\ AuthorAllowed(allowedUsers, pr.User)
  /\ HasPokerLabel(pr.Labels)

MonoPanics(pr, allowedUsers, debug) ==
  \/ debug /\ DebugLogPanics(pr)
  \/ MonoKeeps(pr, allowedUsers) /\ pr.Title = NIL

Mention(id) == <<"<","@">> \o id \o <<">">>
AtName(name) == <<"@">> \o name

\* Assignee text: reverse mapping first, then a direct chat-username match.
MonoAssignee(pr, githubToSlackMap, slackUserMap) ==
  IF pr.Assignee = NIL THEN sUnassigned
  ELSE IF pr.Assignee \in DOMAIN githubToSlackMap
       THEN LET slackUsername == githubToSlackMap[pr.Assignee]
            IN IF slackUsername \in DOMAIN slackUserMap
               THEN Mention(slackUserMap[slackUsername])
               ELSE AtName(slackUsername)
       ELSE IF pr.Assignee \in DOMAIN slackUserMap
            THEN Mention(slackUserMap[pr.Assignee])
            ELSE AtName(pr.Assignee)

\* PullRequestInfo as created by the collector; the enrichment fields
\* JiraStatus, Description and IsBlocked start at their zero values.
MakePullRequestInfo(pr, githubToSlackMap, slackUserMap) ==
  [Number      |-> pr.Number,
   Title       |-> pr.Title,
   Assignee    |-> MonoAssignee(pr, githubToSlackMap, slackUserMap),
   JiraTicket  |-> ExtractTicket(pr.Title, sScrumPrefix),
   JiraStatus  |-> <<>>,
   Description |-> <<>>,
   IsDraft     |-> pr.Draft,
   IsBlocked   |-> FALSE]

MonoLoop(allPRs, allowedUsers, githubToSlackMap, slackUserMap) ==
  LET kept == SelectSeq(allPRs, LAMBDA pr : MonoKeeps(pr, allowedUsers))
  IN [i \in 1..Len(kept) |->
        MakePullRequestInfo(kept[i], githubToSlackMap, slackUserMap)]

MonoLoopPanics(allPRs, allowedUsers, debug) ==
  \E i \in 1..Len(allPRs) : MonoPanics(allPRs[i], allowedUsers, debug)

(***************************************************************************)
(* Ticket Enricher                                                         *)
(*                                                                         *)
(* A tracker response to Issue.Get is                                      *)
(*   [kind |-> "ok", issue |-> I]       the issue                          *)
(*   [kind |-> "notfound"]              an error with a 404 response       *)
(*   [kind |-> "error", cause |-> text] any other error                    *)
(* with I = [nil, Fields], Fields = [nil, Status, Summary, Labels] and     *)
(* Status = [nil, Name]; the nil flag marks a nil pointer.  A nil Labels   *)
(* slice is the empty sequence: ranging over either does nothing.          *)
(***************************************************************************)

\* A different match: the text is compared as it is, not lower-cased.
BlockedText_AsWritten(text) ==
  \/ Contains(text, sBlock)
  \/ Contains(text, sImpediment)
  \/ Contains(text, sPause)

\* The fixed vocabulary, matched against lower-cased text.
BlockedText(text) ==
  LET lower == ToLower(text)
  IN \/ Contains(lower, sBlock)
     \/ Contains(lower, sImpediment)
     \/ Contains(lower, sPause)

NilPtr == [nil |-> TRUE]

HasStatusName(fields) == ~fields.Status.nil /\ fields.Status.Name # <<>>

\* A different check: it assigns the outcome of the match to the flag.
BlockedStep_Assign(flag, text) == BlockedText(text)

\* One check of the blocked derivation: a match sets the flag, and nothing
\* else is done to it.
BlockedStep(flag, text) == IF BlockedText(text) THEN TRUE ELSE flag

\* The labels the label loop examines: it breaks at the first match.
LabelsExamined(labels) ==
  LET hits == { i \in 1..Len(labels) : BlockedText(labels[i]) }
  IN IF hits = {} THEN labels
     ELSE SubSeq(labels, 1, CHOOSE i \in hits : \A j \in hits : i <= j)

\* The values of the blocked flag during one evaluation of a ticket's
\* fields: as it starts, after the status check if the status has a name,
\* and after each label examined.
BlockedTrace(start, fields) ==
  LET texts == (IF HasStatusName(fields) THEN << fields.Status.Name >> ELSE << >>)
               \o LabelsExamined(fields.Labels)
      flag[i \in 0..Len(texts)] ==
        IF i = 0 THEN start ELSE BlockedStep(flag[i - 1], texts[i])
  IN [i \in 1..(Len(texts) + 1) |-> flag[i - 1]]

\* The blocked flag one evaluation ends with.
BlockedAfter(start, fields) ==
  BlockedTrace(start, fields)[Len(BlockedTrace(start, fields))]

HasFields(issue) == ~issue.nil /\ ~issue.Fields.nil

\* jira.NewClient fails on a base URL that does not parse.
NewClientFails(url) == url = "bad-url"

\* The text of the error jira.NewClient then returns.
tParse == <<"p","a","r","s","e">>

\* internal/jira: the TicketInfo built from a fetched issue.
TicketInfoOfIssue(ticketID, issue) ==
  IF HasFields(issue)
  THEN [TicketID  |-> ticketID,
        Status    |-> IF HasStatusName(issue.Fields)
                      THEN issue.Fields.Status.Name ELSE sNoStatus,
        Summary   |-> IF issue.Fields.Summary # <<>>
                      THEN issue.Fields.Summary ELSE sNoDescriptionJira,
        IsBlocked |-> BlockedAfter(FALSE, issue.Fields)]
  ELSE [TicketID |-> ticketID, Status |-> sNoData, Summary |-> <<>>,
        IsBlocked |-> FALSE]

\* A different check: token-based auth asks for no user name.
CredentialsConfigured_PATWithoutUser(opts) ==
  /\ opts.APIToken # "" /\ opts.URL # ""
  /\ (opts.UsePAT \/ opts.Username # "")

CredentialsConfigured(opts) ==
  ~(opts.Username = "" \/ opts.APIToken = "" \/ opts.URL = "")

\* Whether FetchTicketInfo gets as far as Issue.Get.
ReachesTracker(opts, ticketID) ==
  /\ ticketID # <<>>
  /\ CredentialsConfigured(opts)
  /\ ~NewClientFails(opts.URL)

\* FetchTicketInfo, given the tracker's response should it be asked:
\* [err |-> FALSE, info |-> TicketInfo] or [err |-> TRUE, text |-> error text].
FetchTicketInfo(opts, ticketID, resp) ==
  IF ticketID = <<>> THEN [err |-> TRUE, text |-> sTicketIDRequired]
  ELSE IF ~CredentialsConfigured(opts)
  THEN [err |-> TRUE, text |-> sCredsNotConfigured]
  ELSE IF NewClientFails(opts.URL)
  THEN [err |-> TRUE,
        text |-> (IF opts.UsePAT THEN sClientErrorPAT ELSE sClientErrorBasic)
                 \o tParse]
  ELSE IF resp.kind = "notfound"
  THEN [err |-> FALSE,
        info |-> [TicketID |-> ticketID, Status |-> sNotFound,
                  Summary |-> sTicketNotFound, IsBlocked |-> FALSE]]
  ELSE IF resp.kind = "error"
  THEN [err |-> TRUE,
        text |-> sFetchError \o ticketID \o sColonSpace \o resp.cause]
  ELSE [err |-> FALSE, info |-> TicketInfoOfIssue(ticketID, resp.issue)]

\* FetchTicketsInfo: what one iteration stores for ticketID.
TicketsInfoEntry(opts, ticketID, resp) ==
  LET r == FetchTicketInfo(opts, ticketID, resp)
  IN IF r.err
     THEN [TicketID |-> ticketID, Status |-> sError,
           Summary |-> sErrorColon \o r.text, IsBlocked |-> FALSE]
     ELSE r.info

\* UpdateJiraInfo: one iteration of its loop on a PR that has a ticket.
UpdateJiraPR(pr, resp) ==
  IF resp.kind = "notfound" THEN [pr EXCEPT !.JiraStatus = sNotFound]
  ELSE IF resp.kind = "error" THEN [pr EXCEPT !.JiraStatus = sError]
  ELSE IF HasFields(resp.issue)
  THEN [pr EXCEPT
          !.JiraStatus  = IF HasStatusName(resp.issue.Fields)
                          THEN resp.issue.Fields.Status.Name ELSE sNoStatus,
          !.Description = IF resp.issue.Fields.Summary # <<>>
                          THEN resp.issue.Fields.Summary ELSE sNoDescriptionJira,
          !.IsBlocked   = BlockedAfter(pr.IsBlocked, resp.issue.Fields)]
  ELSE [pr EXCEPT !.JiraStatus = sNoData]

(***************************************************************************)
(* Report Formatter                                                        *)
(*                                                                         *)
(* A message is the sequence `lines` of the code, each line a record with  *)
(* its kind and the values printed into it; the message text is the lines  *)
(* joined by newlines.  A pull-request link is determined by the owner,    *)
(* the repository and the number.                                          *)
(***************************************************************************)

Blank == [kind |-> "blank"]

Subteam(group) == <<"<","!","s","u","b","t","e","a","m","^">> \o group \o <<">">>

\* strings.Split(s, ","): the segments between commas.
SplitComma(s) ==
  LET F[i \in 0..Len(s)] ==
        IF i = 0 THEN << <<>> >>
        ELSE IF s[i] = "," THEN Append(F[i - 1], <<>>)
             ELSE [F[i - 1] EXCEPT ![Len(F[i - 1])] = Append(@, s[i])]
  IN F[Len(s)]

\* The mentions of a comma-separated ID list: trimmed, blanks dropped.
MentionsOf(mentionUsers) ==
  LET parts   == SplitComma(mentionUsers)
      trimmed == [i \in 1..Len(parts) |-> TrimSpace(parts[i])]
      kept    == SelectSeq(trimmed, LAMBDA u : u # <<>>)
  IN [i \in 1..Len(kept) |-> Mention(kept[i])]

\* The entry a PR adds to the blocked list (list = "blocked") or to the
\* draft list (list = "draft"), or none.
\* A different footer: a PR that is blocked and draft goes to the draft list.
SummaryList_DraftWins(pr) ==
  IF pr.IsDraft THEN "draft"
  ELSE IF pr.IsBlocked THEN "blocked"
  ELSE "none"

SummaryList(pr) ==
  IF pr.IsBlocked /\ pr.IsDraft THEN "blocked"
  ELSE IF pr.IsBlocked THEN "blocked"
  ELSE IF pr.IsDraft THEN "draft"
  ELSE "none"

SummaryRef(pr) ==
  [Number |-> pr.Number, both |-> pr.IsBlocked /\ pr.IsDraft]

SummaryRefs(prs, list) ==
  LET sel == SelectSeq(prs, LAMBDA pr : SummaryList(pr) = list)
  IN [i \in 1..Len(sel) |-> SummaryRef(sel[i])]

\* A different footer: the N/A line is always printed, after the lists.
SummaryLines_AlwaysNA(prs) ==
  LET blockedPRs == SummaryRefs(prs, "blocked")
      draftPRs   == SummaryRefs(prs, "draft")
  IN (IF Len(blockedPRs) > 0
      THEN << [kind |-> "blocked", refs |-> blockedPRs] >> ELSE <<>>)
     \o (IF Len(draftPRs) > 0
         THEN << [kind |-> "draft", refs |-> draftPRs] >> ELSE <<>>)
     \o << [kind |-> "na"] >>

\* The summary lines after the PR lines: blocked, draft, or the N/A line.
SummaryLines(prs) ==
  LET blockedPRs == SummaryRefs(prs, "blocked")
      draftPRs   == SummaryRefs(prs, "draft")
  IN IF Len(blockedPRs) > 0 \/ Len(draftPRs) > 0
     THEN (IF Len(blockedPRs) > 0
           THEN << [kind |-> "blocked", refs |-> blockedPRs] >> ELSE <<>>)
          \o
          (IF Len(draftPRs) > 0
           THEN << [kind |-> "draft", refs |-> draftPRs] >> ELSE <<>>)
     ELSE << [kind |-> "na"] >>

StatusPart(pr) == IF pr.JiraStatus = <<>> THEN sUnknown ELSE pr.JiraStatus

\* internal/slack SendPRReport: one PR line.
ReportPRLine(opts, pr, i) ==
  [kind        |-> "pr",
   Ordinal     |-> i,
   Number      |-> pr.Number,
   Assignee    |-> IF pr.Assignee = <<>> THEN sUnassigned ELSE pr.Assignee,
   Jira        |-> IF pr.JiraTicket # <<>> /\ opts.JiraURL # ""
                   THEN [link |-> TRUE,  url |-> opts.JiraURL, text |-> pr.JiraTicket]
                   ELSE IF pr.JiraTicket = <<>>
                   THEN [link |-> FALSE, url |-> "", text |-> sNA]
                   ELSE [link |-> FALSE, url |-> "", text |-> pr.JiraTicket],
   Description |-> IF pr.Description = <<>> THEN sNoDescription ELSE pr.Description,
   Status      |-> StatusPart(pr)]

\* A different priority: the team group wins over the explicit list.
ReportMentionLines_GroupFirst(opts) ==
  IF opts.TeamGroup # <<>>
  THEN << Blank, [kind |-> "mention", who |-> << Subteam(opts.TeamGroup) >>] >>
  ELSE IF opts.MentionUsers # <<>>
  THEN LET mentions == MentionsOf(opts.MentionUsers)
       IN << Blank >> \o
          (IF Len(mentions) > 0
           THEN << [kind |-> "mention", who |-> mentions] >> ELSE <<>>)
  ELSE <<>>

ReportMentionLines(opts) ==
  IF opts.MentionUsers # <<>>
  THEN LET mentions == MentionsOf(opts.MentionUsers)
       IN << Blank >> \o
          (IF Len(mentions) > 0
           THEN << [kind |-> "mention", who |-> mentions] >> ELSE <<>>)
  ELSE IF opts.TeamGroup # <<>>
  THEN << Blank, [kind |-> "mention", who |-> << Subteam(opts.TeamGroup) >>] >>
  ELSE <<>>

\* A different rendering: the report title carries the date as well.
RenderReport_DatedTitle(opts, prs, today) ==
  << [kind |-> "title", text |-> today], Blank,
     [kind |-> "date", date |-> today], Blank,
     [kind |-> "total", total |-> Len(prs)], Blank >>
  \o [i \in 1..Len(prs) |-> ReportPRLine(opts, prs[i], i)]
  \o << Blank >>
  \o SummaryLines(prs)
  \o ReportMentionLines(opts)

\* internal/slack SendPRReport: the message it posts on date `today`.
RenderReport(opts, prs, today) ==
  (IF opts.ReportTitle # ""
   THEN << [kind |-> "title", text |-> opts.ReportTitle], Blank >> ELSE <<>>)
  \o << [kind |-> "date", date |-> today], Blank,
        [kind |-> "total", total |-> Len(prs)], Blank >>
  \o [i \in 1..Len(prs) |-> ReportPRLine(opts, prs[i], i)]
  \o << Blank >>
  \o SummaryLines(prs)
  \o ReportMentionLines(opts)

\* Monolith SendSlackMessage: one PR line; the ticket link, the description
\* and the assignee are printed as they are.
MessagePRLine(config, pr, i) ==
  [kind        |-> "pr",
   Ordinal     |-> i,
   Number      |-> pr.Number,
   Assignee    |-> pr.Assignee,
   Jira        |-> [link |-> TRUE, url |-> config.JiraURL, text |-> pr.JiraTicket],
   Description |-> pr.Description,
   Status      |-> StatusPart(pr)]

\* Monolith SendSlackMessage: the message it posts on date `today`.
RenderMessage(config, prs, today) ==
  << [kind |-> "date", date |-> today], Blank,
     [kind |-> "total", total |-> Len(prs)], Blank >>
  \o [i \in 1..Len(prs) |-> MessagePRLine(config, prs[i], i)]
  \o << Blank >>
  \o SummaryLines(prs)
  \o << Blank, [kind |-> "mention", who |-> << Subteam(config.TeamGroup) >>] >>

(***************************************************************************)
(* Inputs: configuration values and the remote services' answers           *)
(*                                                                         *)
(* Inputs are drawn where the code reads them (an environment variable at  *)
(* its os.Getenv, a remote answer at the call).  A run varies the inputs   *)
(* of one stage, named by `scenario`, over the wide sets below and takes   *)
(* the inputs of the other stages from the narrow ones.                    *)
(***************************************************************************)

\* The longest open-PR listing drawn, not counting the filler PRs in front.
MaxPRs == 2

nAl   == <<"a","l">>
nAlUp == <<"A","L">>
nAlSp == <<" ","a","l"," ">>
nBo   == <<"b","o">>
nAg   == <<"a","g">>
nZz   == <<"z","z">>
nCi   == <<"c","i">>
nDd   == <<"d","d">>
idU1  == <<"U","1">>
idU2  == <<"U","2">>
idB1  == <<"B","1">>
idD1  == <<"D","1">>
idS1  == <<"S","1">>

lPokerLower == <<"p","o","k","e","r">>
lPokerFace  == <<"P","O","K","E","R","f","a","c","e">>
lBug        == <<"b","u","g">>
lFace       == <<"F","A","C","E">>

tFix  == <<"f","i","x">>
tOpen == <<"O","p","e","n">>
tBlockedWaiting ==
  <<"B","l","o","c","k","e","d"," ","-"," ","W","a","i","t","i","n","g">>
tOnPause == <<"O","n","-","P","a","u","s","e">>
tImpediment == <<"I","M","P","E","D","I","M","E","N","T">>
tSum  == <<"s","u","m">>
t401  == <<"4","0","1">>

Scenarios == {"resolve", "collect", "enrich", "publish"}

PRTemplate(title, user, assignee, draft, labels) ==
  [Title |-> title, User |-> user, Assignee |-> assignee, Draft |-> draft,
   Labels |-> labels]

\* Open PRs whose titles carry tickets of the program's prefix.
NarrowTemplates(prefix) ==
  { PRTemplate(prefix \o <<"1">>, nAl, nAl, FALSE, << sPoker >>),
    PRTemplate(prefix \o <<"2">>, nBo, NIL, TRUE, << sPoker >>),
    PRTemplate(tFix, nAl, nAg, FALSE, << sPoker >>) }

WideTemplates(prefix) ==
  { PRTemplate(prefix \o <<"1">>, nAl, nAl, FALSE, << sPoker >>),
    PRTemplate(tFix \o <<" ">> \o prefix \o <<"1","2">> \o <<" ">> \o tFix,
               nAlUp, NIL, TRUE, << lPokerLower >>),
    PRTemplate(tFix, nZz, NIL, FALSE, << sPoker >>),
    PRTemplate(tFix, nAl, nBo, FALSE, << >>),
    PRTemplate(prefix \o <<"1">>, nBo, nAl, TRUE, << lBug, lPokerFace >>),
    PRTemplate(tFix, NIL, NIL, FALSE, << sPoker >>),
    PRTemplate(tFix, nAl, NIL, FALSE, << NIL, sPoker >>),
    PRTemplate(tFix, nBo, NIL, FALSE, << lBug >>),
    PRTemplate(NIL, nAl, NIL, FALSE, << sPoker >>) }

\* A PR nobody asked for: it fills the listing in front of the drawn PRs.
FillerPR == PRTemplate(tFix, nZz, NIL, FALSE, << lBug >>)

SeqsUpTo(S, n) == UNION { [1..k -> S] : k \in 0..n }

Templates(sc, prefix) ==
  IF sc = "collect" THEN WideTemplates(prefix) ELSE NarrowTemplates(prefix)

\* The code host's open PRs, in listing order, numbered by position.
OpenPRs(padding, drawn) ==
  [i \in 1..(padding + Len(drawn)) |->
     LET t == IF i <= padding THEN FillerPR ELSE drawn[i - padding]
     IN [Number |-> i, Title |-> t.Title, User |-> t.User,
         Assignee |-> t.Assignee, Draft |-> t.Draft, Labels |-> t.Labels]]

\* The listings a run may meet: up to MaxPRs open PRs, and, where the
\* collector's inputs vary, as many behind filler PRs one short of a page.
Listings(pg, sc, prefix) ==
  { OpenPRs(0, d) : d \in SeqsUpTo(Templates(sc, prefix), MaxPRs) }
  \cup (IF sc = "collect" /\ pg # "FetchPRs"
        THEN { OpenPRs(PerPage - 1, d) :
                 d \in SeqsUpTo(NarrowTemplates(prefix), MaxPRs) }
        ELSE {})

\* PullRequests.List with PerPage set and no page requested: the first page.
FirstPage(open) == SubSeq(open, 1, IF Len(open) < PerPage THEN Len(open) ELSE PerPage)

Issue(status, summary, labels) ==
  [kind |-> "ok",
   issue |-> [nil |-> FALSE,
              Fields |-> [nil |-> FALSE, Status |-> status, Summary |-> summary,
                          Labels |-> labels]]]

StatusNamed(name) == [nil |-> FALSE, Name |-> name]

respOpen    == Issue(StatusNamed(tOpen), tSum, << >>)
respBlocked == Issue(StatusNamed(tBlockedWaiting), << >>, << lBug >>)
respLabel   == Issue(NilPtr, tSum, << lBug, tOnPause, lBug >>)
respImpediment == Issue(StatusNamed(tImpediment), tSum, << >>)
respNoFields == [kind |-> "ok", issue |-> [nil |-> FALSE, Fields |-> NilPtr]]
respNotFound == [kind |-> "notfound"]
respError    == [kind |-> "error", cause |-> t401]

TrackerResponses(sc) ==
  IF sc = "enrich"
  THEN {respOpen, respBlocked, respLabel, respImpediment, respNoFields,
        respNotFound, respError}
  ELSE IF sc = "publish" THEN {respOpen, respBlocked}
  ELSE {respOpen}

JiraOptions(url, username, token, pat, dbg) ==
  [URL |-> url, Username |-> username, APIToken |-> token, UsePAT |-> pat,
   DebugMode |-> dbg]

\* JIRA_URL, JIRA_USERNAME, JIRA_API_TOKEN, JIRA_USE_PAT as read by main.
JiraEnv(sc, dbg) ==
  IF sc = "enrich"
  THEN { JiraOptions("https://jira", "user", "token", FALSE, dbg),
         JiraOptions("https://jira", "user", "token", TRUE, dbg),
         JiraOptions("", "", "", FALSE, dbg),
         JiraOptions("https://jira", "", "token", TRUE, dbg),
         JiraOptions("bad-url", "user", "token", FALSE, dbg) }
  ELSE { JiraOptions("https://jira", "user", "token", FALSE, dbg) }

\* USER_MAPPING, parsed: pairs <<chat user, code-host user>> in the order given.
UserMappingEnv(sc) ==
  IF sc = "publish"
  THEN { << >>, << <<nAl, nAg>> >>, << <<nAl, nAg>>, <<nBo, nAg>> >> }
  ELSE IF sc = "resolve" THEN { << >>, << <<nAl, nAg>> >>, << <<nZz, nAg>> >> }
  ELSE { << >> }

\* The map a sequential parse of the pairs leaves: a later pair replaces an
\* earlier one with the same key.  keyAt is 1 or 2, valAt the other.
MapOfPairs(pairs, keyAt, valAt) ==
  [k \in { pairs[i][keyAt] : i \in 1..Len(pairs) } |->
     pairs[CHOOSE i \in 1..Len(pairs) :
             /\ pairs[i][keyAt] = k
             /\ \A j \in 1..Len(pairs) : pairs[j][keyAt] = k => j <= i][valAt]]

\* time.Now(), formatted: the day of the run.
Days(sc) == IF sc = "publish" THEN {"2026-11-04", "2026-11-05"} ELSE {"2026-11-04"}

(***************************************************************************)
(* State                                                                   *)
(***************************************************************************)

VARIABLES
  prog,             \* "monolith" (RunReport), "middletier" (cmd/middletier
                    \* main) or "FetchPRs" (one call of github.FetchPRs)
  scenario,         \* the stage whose inputs this run varies
  debug,            \* DEBUG=true
  pc,               \* the position in the program
  outcome,          \* "running", "ok", "failed" (error exit) or "panic"
  calls,            \* the remote calls made so far, in order
  ghOpts,           \* github.FetchOptions / the monolith's owner, repo, token
  hostOpen,         \* the code host's open PRs when they were listed
  allPRs,           \* the page PullRequests.List returned
  prs,              \* the collected PRs (githubPRs; the monolith's prs)
  config,           \* the monolith's Config
  members,          \* the channel's member IDs
  allowedUsers,     \* the permitted code-host usernames
  slackUserMap,     \* chat username -> chat ID
  githubToSlackMap, \* code-host username -> chat username (or ID)
  idx,              \* the index of the running loop
  jiraOpts,         \* jira.FetchOptions
  jiraTicketIDs,    \* the ticket IDs handed to FetchTicketsInfo
  jiraInfo,         \* [nil, map]: the map FetchTicketsInfo fills
  slackPRs,         \* the slack.PRInfo list
  slackOpts,        \* slack.MessageOptions
  outbox            \* the messages the chat service accepted, in order

vars == << prog, scenario, debug, pc, outcome, calls, ghOpts, hostOpen, allPRs,
           prs, config, members, allowedUsers, slackUserMap, githubToSlackMap,
           idx, jiraOpts, jiraTicketIDs, jiraInfo, slackPRs, slackOpts, outbox >>

collectorVars == << ghOpts, hostOpen, allPRs, prs >>
resolverVars  == << members, allowedUsers, slackUserMap, githubToSlackMap >>
enricherVars  == << jiraOpts, jiraTicketIDs, jiraInfo >>
publisherVars == << slackPRs, slackOpts, outbox >>
runVars       == << prog, scenario, debug, config >>

EmptyMap == [x \in {} |-> x]

Call(svc, op, arg, ret) == [svc |-> svc, op |-> op, arg |-> arg, ret |-> ret]

Init ==
  /\ prog \in {"monolith", "middletier", "FetchPRs"}
  /\ scenario \in Scenarios
  /\ prog = "FetchPRs" => scenario = "collect"
  /\ prog = "middletier" => scenario # "resolve"
  /\ debug \in BOOLEAN
  /\ pc = "start"
  /\ outcome = "running"
  /\ calls = << >>
  /\ ghOpts = << >>
  /\ hostOpen = << >>
  /\ allPRs = << >>
  /\ prs = << >>
  /\ config = << >>
  /\ members = << >>
  /\ allowedUsers = << >>
  /\ slackUserMap = EmptyMap
  /\ githubToSlackMap = EmptyMap
  /\ idx = 0
  /\ jiraOpts = << >>
  /\ jiraTicketIDs = << >>
  /\ jiraInfo = [nil |-> TRUE, map |-> EmptyMap]
  /\ slackPRs = << >>
  /\ slackOpts = << >>
  /\ outbox = << >>

\* A function returned an error to main (log.Fatalf), or RunReport's error
\* reached its caller.
Fail == pc' = "exit" /\ outcome' = "failed"
Panic == pc' = "exit" /\ outcome' = "panic"

\* A different caller: the error is dropped and the run goes on with no PRs.
FetchFailed_Ignored == pc' = "filter" /\ outcome' = outcome

\* The resolver or the collector returned an error: FetchPullRequests hands
\* it on and RunReport returns it; main ends on the error of FetchPRs.
FetchFailed == Fail

(***************************************************************************)
(* PR Collector, modular: github.FetchPRs as called by cmd/middletier      *)
(***************************************************************************)

GithubOptions(token, owner, labels, allowed, dbg) ==
  [Token |-> token, Owner |-> owner, Repo |-> "fips-poker-web-mt",
   Labels |-> labels, AllowedUsers |-> allowed, DebugMode |-> dbg]

LabelFilters(sc) ==
  IF sc = "collect"
  THEN { << >>, << lPokerLower >>, << lBug, lFace >> }
  ELSE { << >> }

AllowLists == { << >>, << nAl >>, << nAlSp >>, << nAlUp, nBo >>, << <<" ">> >> }

\* GITHUB_TOKEN, GITHUB_OWNER, MIDDLETIER_LABELS as read by main; any
\* options for a direct call of FetchPRs.
GithubEnv(pg, sc, dbg) ==
  IF pg = "FetchPRs"
  THEN { GithubOptions("ghp", "acme", l, a, dbg) :
           l \in LabelFilters(sc), a \in AllowLists }
  ELSE { GithubOptions("ghp", "acme", l, << >>, dbg) : l \in LabelFilters(sc) }
       \cup (IF sc = "collect"
             THEN { GithubOptions("", "acme", << >>, << >>, dbg),
                    GithubOptions("ghp", "", << >>, << >>, dbg) }
             ELSE {})

\* main, lines 23-56: the options of the FetchPRs call.
MainFetchPRs ==
  /\ pc = "start" /\ prog \in {"middletier", "FetchPRs"}
  /\ \E o \in GithubEnv(prog, scenario, debug) : ghOpts' = o
  /\ pc' = "FetchPRs"
  /\ UNCHANGED << outcome, calls, hostOpen, allPRs, prs, resolverVars, idx,
                  enricherVars, publisherVars, runVars >>

\* FetchPRs, lines 40-48: the required options.
FetchPRsValidate ==
  /\ pc = "FetchPRs"
  /\ IF ghOpts.Token = "" \/ ghOpts.Owner = "" \/ ghOpts.Repo = ""
     THEN FetchFailed
     ELSE /\ pc' = IF ghOpts.DebugMode THEN "Users.Get" ELSE "PullRequests.List"
          /\ UNCHANGED outcome
  /\ UNCHANGED << calls, collectorVars, resolverVars, idx, enricherVars,
                  publisherVars, runVars >>

\* Both collectors, debug mode: the authentication check.
UsersGet ==
  /\ pc = "Users.Get"
  /\ \E ok \in BOOLEAN :
       /\ ok \/ scenario = "collect"
       /\ calls' = Append(calls, Call("github", "Users.Get", << >>, ok))
       /\ IF ok THEN pc' = "PullRequests.List" /\ UNCHANGED outcome
          ELSE FetchFailed
  /\ UNCHANGED << collectorVars, resolverVars, idx, enricherVars,
                  publisherVars, runVars >>

TicketPrefix(pg) == IF pg = "monolith" THEN sScrumPrefix ELSE sPokerPrefix

\* Both collectors: the one PullRequests.List call, state "open", PerPage.
PullRequestsList ==
  /\ pc = "PullRequests.List"
  /\ \/ \E open \in Listings(prog, scenario, TicketPrefix(prog)) :
          /\ calls' = Append(calls, Call("github", "PullRequests.List", << >>, TRUE))
          /\ hostOpen' = open
          /\ allPRs' = FirstPage(open)
          /\ pc' = "filter"
          /\ UNCHANGED outcome
     \/ /\ scenario = "collect"
        /\ calls' = Append(calls, Call("github", "PullRequests.List", << >>, FALSE))
        /\ FetchFailed
        /\ UNCHANGED << hostOpen, allPRs >>
  /\ UNCHANGED << ghOpts, prs, resolverVars, idx, enricherVars, publisherVars,
                  runVars >>

\* FetchPRs, lines 83-219: the filter loop and the return to the caller.
FetchPRsFilter ==
  /\ pc = "filter" /\ prog \in {"middletier", "FetchPRs"}
  /\ IF FetchPRsLoopPanics(allPRs, ghOpts)
     THEN Panic /\ UNCHANGED prs
     ELSE /\ prs' = FetchPRsLoop(allPRs, ghOpts)
          /\ IF prog = "FetchPRs"
             THEN pc' = "exit" /\ outcome' = "ok"
             ELSE pc' = "main.jira" /\ UNCHANGED outcome
  /\ UNCHANGED << calls, ghOpts, hostOpen, allPRs, resolverVars, idx,
                  enricherVars, publisherVars, runVars >>

(***************************************************************************)
(* Ticket Enricher, modular: jira.FetchTicketsInfo as called by main       *)
(***************************************************************************)

TicketsOf(list) ==
  LET withTicket == SelectSeq(list, LAMBDA pr : pr.JiraTicket # << >>)
  IN [i \in 1..Len(withTicket) |-> withTicket[i].JiraTicket]

MapPut(m, k, v) == [x \in DOMAIN m \cup {k} |-> IF x = k THEN v ELSE m[x]]

\* main, lines 63-89: the tracker options and the ticket IDs of the PRs.
MainJira ==
  /\ pc = "main.jira"
  /\ \E o \in JiraEnv(scenario, debug) : jiraOpts' = o
  /\ jiraTicketIDs' = TicketsOf(prs)
  /\ IF Len(TicketsOf(prs)) > 0
     THEN /\ jiraInfo' = [nil |-> FALSE, map |-> EmptyMap]
          /\ idx' = 1
          /\ pc' = "FetchTicketsInfo"
     ELSE /\ UNCHANGED << jiraInfo, idx >>
          /\ pc' = "main.slackPRs"
  /\ UNCHANGED << outcome, calls, collectorVars, resolverVars, publisherVars,
                  runVars >>

\* The remote calls of one FetchTicketInfo that reaches the tracker.
TrackerCalls(opts, ticketID, resp) ==
  (IF opts.DebugMode
   THEN << Call("jira", "User.GetSelf", << >>, TRUE) >> ELSE << >>)
  \o << Call("jira", "Issue.Get", ticketID, resp) >>

\* A different FetchTicketsInfo: it returns at the first error.
AfterTicket_ReturnOnError(i, ids, err) ==
  IF i < Len(ids) /\ ~err THEN "FetchTicketsInfo" ELSE "main.slackPRs"

\* Where FetchTicketsInfo goes after the iteration at i, whether or not its
\* FetchTicketInfo returned an error: on to the next ID, or back to main.
AfterTicket(i, ids, err) ==
  IF i < Len(ids) THEN "FetchTicketsInfo" ELSE "main.slackPRs"

\* The tracker's possible answers to a FetchTicketInfo, none if it is not asked.
NoResponse == [kind |-> "none"]

TrackerAnswers(opts, ticketID, sc) ==
  IF ReachesTracker(opts, ticketID) THEN TrackerResponses(sc) ELSE {NoResponse}

\* FetchTicketsInfo, lines 183-202: one iteration, FetchTicketInfo included.
FetchTicketsInfoStep ==
  /\ pc = "FetchTicketsInfo" /\ idx <= Len(jiraTicketIDs)
  /\ LET ticketID == jiraTicketIDs[idx]
     IN IF ticketID = << >>
        THEN /\ UNCHANGED << calls, jiraInfo >>
             /\ pc' = AfterTicket(idx, jiraTicketIDs, FALSE)
        ELSE \E resp \in TrackerAnswers(jiraOpts, ticketID, scenario) :
               /\ calls' = IF ReachesTracker(jiraOpts, ticketID)
                           THEN calls \o TrackerCalls(jiraOpts, ticketID, resp)
                           ELSE calls
               /\ jiraInfo' = [jiraInfo EXCEPT !.map =
                    MapPut(@, ticketID, TicketsInfoEntry(jiraOpts, ticketID, resp))]
               /\ pc' = AfterTicket(idx, jiraTicketIDs,
                                    FetchTicketInfo(jiraOpts, ticketID, resp).err)
  /\ idx' = idx + 1
  /\ UNCHANGED << outcome, collectorVars, resolverVars, jiraOpts, jiraTicketIDs,
                  publisherVars, runVars >>

(***************************************************************************)
(* Join and Publisher, modular: main and slack.SendPRReport                *)
(***************************************************************************)

\* MapGitHubUserToMention
\* A different fallback: the bare username, without the "@".
MapGitHubUserToMention_Bare(map, githubUsername) ==
  IF githubUsername = << >> THEN << >>
  ELSE IF githubUsername \in DOMAIN map THEN Mention(map[githubUsername])
  ELSE githubUsername

MapGitHubUserToMention(map, githubUsername) ==
  IF githubUsername = << >> THEN << >>
  ELSE IF githubUsername \in DOMAIN map THEN Mention(map[githubUsername])
  ELSE AtName(githubUsername)

\* main, lines 108-137: the slack.PRInfo of one collected PR.
SlackPRInfo(pr, info, map) ==
  LET found == pr.JiraTicket # << >> /\ ~info.nil /\ pr.JiraTicket \in DOMAIN info.map
  IN [Number      |-> pr.Number,
      Title       |-> pr.Title,
      Assignee    |-> IF pr.Assignee # << >>
                      THEN MapGitHubUserToMention(map, pr.Assignee) ELSE pr.Assignee,
      JiraTicket  |-> pr.JiraTicket,
      JiraStatus  |-> IF found THEN info.map[pr.JiraTicket].Status ELSE << >>,
      Description |-> IF found THEN info.map[pr.JiraTicket].Summary ELSE pr.Title,
      IsDraft     |-> pr.IsDraft,
      IsBlocked   |-> IF found THEN info.map[pr.JiraTicket].IsBlocked ELSE FALSE]

\* main, lines 91-138: the identity mapping and the conversion of the PRs.
MainSlackPRs ==
  /\ pc = "main.slackPRs"
  /\ \E pairs \in UserMappingEnv(scenario) :
       /\ githubToSlackMap' = MapOfPairs(pairs, 2, 1)
       /\ slackPRs' = [i \in 1..Len(prs) |->
                         SlackPRInfo(prs[i], jiraInfo, MapOfPairs(pairs, 2, 1))]
  /\ pc' = "main.send"
  /\ UNCHANGED << outcome, calls, collectorVars, members, allowedUsers,
                  slackUserMap, idx, enricherVars, slackOpts, outbox, runVars >>

MessageOptions(token, channel, owner, repo, url, group, users, title, dbg) ==
  [Token |-> token, Channel |-> channel, GithubOwner |-> owner,
   GithubRepo |-> repo, JiraURL |-> url, TeamGroup |-> group,
   MentionUsers |-> users, ReportTitle |-> title, DebugMode |-> dbg]

mU1U2  == <<"U","1",","," ","U","2">>
mBlank == <<" ",",">>

\* <<chat token, channel, team group, mention users>> as configured.
SlackEnv(sc) ==
  IF sc = "publish"
  THEN { <<"xoxb", "#team", idS1, << >>>>,
         <<"xoxb", "#team", idS1, mU1U2>>,
         <<"xoxb", "#team", << >>, mBlank>>,
         <<"xoxb", "#team", << >>, << >>>>,
         <<"", "#team", idS1, << >>>>,
         <<"xoxb", "", idS1, << >>>> }
  ELSE { <<"xoxb", "#team", idS1, << >>>> }

\* main, lines 140-163: the options of the SendPRReport call.
MainSend ==
  /\ pc = "main.send"
  /\ \E e \in SlackEnv(scenario) :
       slackOpts' = MessageOptions(e[1], e[2], ghOpts.Owner, ghOpts.Repo,
                      jiraOpts.URL, e[3], e[4], "Middletier Report", debug)
  /\ pc' = "SendPRReport"
  /\ UNCHANGED << outcome, calls, collectorVars, resolverVars, idx, enricherVars,
                  slackPRs, outbox, runVars >>

\* SendPRReport, lines 39-47: the required options.
SendPRReportValidate ==
  /\ pc = "SendPRReport"
  /\ IF \/ slackOpts.Token = ""
        \/ slackOpts.Channel = ""
        \/ slackOpts.GithubOwner = "" \/ slackOpts.GithubRepo = ""
     THEN Fail
     ELSE /\ pc' = IF slackOpts.DebugMode THEN "SendPRReport.AuthTest"
                   ELSE "SendPRReport.PostMessage"
          /\ UNCHANGED outcome
  /\ UNCHANGED << calls, collectorVars, resolverVars, idx, enricherVars,
                  publisherVars, runVars >>

\* SendPRReport, lines 51-59: the debug-mode authentication test.
SendPRReportAuthTest ==
  /\ pc = "SendPRReport.AuthTest"
  /\ \E ok \in BOOLEAN :
       /\ ok \/ scenario = "publish"
       /\ calls' = Append(calls, Call("slack", "AuthTest", << >>, ok))
       /\ IF ok THEN pc' = "SendPRReport.PostMessage" /\ UNCHANGED outcome ELSE Fail
  /\ UNCHANGED << collectorVars, resolverVars, idx, enricherVars, publisherVars,
                  runVars >>

\* A different caller: a rejected post ends the run like an accepted one.
PostFailed_Swallowed == pc' = "exit" /\ outcome' = "ok"

\* The chat service rejected the post: SendPRReport returns the error and
\* main ends on it; SendSlackMessage returns it and RunReport hands it on.
PostFailed == Fail

\* A different publisher: the PR lines go out in a post of their own,
\* ahead of the rest of the report.
PostMessage_Split(channel, message, ok) ==
  /\ calls' = Append(Append(calls,
                 Call("slack", "PostMessage",
                      SelectSeq(message, LAMBDA line : line.kind = "pr"), ok)),
                 Call("slack", "PostMessage",
                      SelectSeq(message, LAMBDA line : line.kind # "pr"), ok))
  /\ outbox' = IF ok THEN Append(outbox, [channel |-> channel, lines |-> message])
               ELSE outbox

\* The chat service accepts or rejects one PostMessage.
PostMessage(channel, message, ok) ==
  /\ calls' = Append(calls, Call("slack", "PostMessage", message, ok))
  /\ outbox' = IF ok THEN Append(outbox, [channel |-> channel, lines |-> message])
               ELSE outbox

\* SendPRReport, lines 61-193: render, post once, return to main.
SendPRReportPost ==
  /\ pc = "SendPRReport.PostMessage"
  /\ \E today \in Days(scenario), ok \in BOOLEAN :
       /\ PostMessage(slackOpts.Channel, RenderReport(slackOpts, slackPRs, today), ok)
       /\ IF ok THEN pc' = "exit" /\ outcome' = "ok" ELSE PostFailed
  /\ UNCHANGED << collectorVars, resolverVars, idx, enricherVars, slackPRs,
                  slackOpts, runVars >>

(***************************************************************************)
(* Membership Resolver, monolithic: GetSlackChannelUsers                   *)
(***************************************************************************)

SlackUser(id, name, bot, deleted) ==
  [ID |-> id, Name |-> name, IsBot |-> bot, Deleted |-> deleted]

\* The chat workspace's users, by member ID.
Directory ==
  [m \in {idU1, idU2, idB1, idD1} |->
     IF m = idU1 THEN SlackUser(idU1, nAl, FALSE, FALSE)
     ELSE IF m = idU2 THEN SlackUser(idU2, nBo, FALSE, FALSE)
     ELSE IF m = idB1 THEN SlackUser(idB1, nCi, TRUE, FALSE)
     ELSE SlackUser(idD1, nDd, FALSE, TRUE)]

ChannelMembers(sc) ==
  IF sc = "resolve"
  THEN { << >>, << idB1 >>, << idU1 >>, << idB1, idU1 >>, << idU1, idU2 >>,
         << idU1, idD1 >> }
  ELSE { << idU1, idU2 >> }

MonoJiraEnv(sc) ==
  IF sc = "enrich"
  THEN { <<"https://jira", "user", "token">>, <<"", "", "">>,
         <<"https://jira", "", "token">>, <<"bad-url", "user", "token">> }
  ELSE { <<"https://jira", "user", "token">> }

TeamGroups(sc) == IF sc = "publish" THEN { << >>, idS1 } ELSE { idS1 }

\* LoadConfig: the Config of a run; the two required tokens are set.
MonoLoadConfig ==
  /\ pc = "start" /\ prog = "monolith"
  /\ \E j \in MonoJiraEnv(scenario), g \in TeamGroups(scenario),
        pairs \in UserMappingEnv(scenario) :
       config' = [GithubToken |-> "ghp", GithubOwner |-> "acme",
                  GithubRepo |-> "repo", DebugMode |-> debug,
                  JiraURL |-> j[1], JiraUsername |-> j[2], JiraAPIToken |-> j[3],
                  SlackToken |-> "xoxb", SlackChannel |-> "#team",
                  TeamGroup |-> g, UserMapping |-> MapOfPairs(pairs, 1, 2)]
  /\ pc' = IF debug THEN "GetSlackChannelUsers.AuthTest"
           ELSE "GetSlackChannelUsers.typed"
  /\ idx' = 1
  /\ UNCHANGED << outcome, calls, collectorVars, resolverVars, enricherVars,
                  publisherVars, prog, scenario, debug >>

\* Lines 98-106: the debug-mode authentication test.
SlackAuthTest ==
  /\ pc = "GetSlackChannelUsers.AuthTest"
  /\ \E ok \in BOOLEAN :
       /\ ok \/ scenario = "resolve"
       /\ calls' = Append(calls, Call("slack", "AuthTest", << >>, ok))
       /\ IF ok THEN pc' = "GetSlackChannelUsers.typed" /\ UNCHANGED outcome
          ELSE FetchFailed
  /\ UNCHANGED << collectorVars, resolverVars, idx, enricherVars, publisherVars,
                  runVars >>

ConversationAnswers(sc) ==
  IF sc = "resolve" THEN {"found", "absent", "error"} ELSE {"found"}

\* Lines 119-150: the search of one conversation type (1 public, 2 private);
\* an error is logged and the next type tried.
GetConversationsTyped ==
  /\ pc = "GetSlackChannelUsers.typed"
  /\ \E answer \in ConversationAnswers(scenario) :
       /\ calls' = Append(calls, Call("slack", "GetConversations", idx, answer))
       /\ IF answer = "found"
          THEN pc' = "GetUsersInConversation" /\ UNCHANGED idx
          ELSE IF idx < 2
          THEN idx' = idx + 1 /\ UNCHANGED pc
          ELSE pc' = "GetSlackChannelUsers.all" /\ UNCHANGED idx
  /\ UNCHANGED << outcome, collectorVars, resolverVars, enricherVars,
                  publisherVars, runVars >>

\* Lines 152-179: the search of all accessible channels.
GetConversationsAll ==
  /\ pc = "GetSlackChannelUsers.all"
  /\ \E answer \in ConversationAnswers(scenario) :
       /\ calls' = Append(calls, Call("slack", "GetConversations", 0, answer))
       /\ IF answer = "found"
          THEN pc' = "GetUsersInConversation" /\ UNCHANGED outcome
          ELSE FetchFailed
  /\ UNCHANGED << collectorVars, resolverVars, idx, enricherVars, publisherVars,
                  runVars >>

\* Lines 186-200: the member IDs of the channel.
GetUsersInConversation ==
  /\ pc = "GetUsersInConversation"
  /\ \/ \E ms \in ChannelMembers(scenario) :
          /\ calls' = Append(calls, Call("slack", "GetUsersInConversation", << >>, TRUE))
          /\ members' = ms
          /\ idx' = 1
          /\ pc' = IF Len(ms) = 0 THEN "FetchPullRequests.users" ELSE "GetUserInfo"
          /\ UNCHANGED outcome
     \/ /\ scenario = "resolve"
        /\ calls' = Append(calls, Call("slack", "GetUsersInConversation", << >>, FALSE))
        /\ FetchFailed
        /\ UNCHANGED << members, idx >>
  /\ UNCHANGED << collectorVars, allowedUsers, slackUserMap, githubToSlackMap,
                  enricherVars, publisherVars, runVars >>

\* The code-host username of a chat user: the mapped one, else the same.
GithubUserOf(mapping, name) ==
  IF name \in DOMAIN mapping THEN mapping[name] ELSE name

\* Lines 202-236: one member; a failed lookup is logged and skipped, as are
\* bots and deleted users.
GetUserInfoStep ==
  /\ pc = "GetUserInfo" /\ idx <= Len(members)
  /\ \E ok \in BOOLEAN :
       /\ ok \/ scenario = "resolve"
       /\ calls' = Append(calls, Call("slack", "GetUserInfo", members[idx], ok))
       /\ LET user == Directory[members[idx]]
          IN IF ~ok \/ user.IsBot \/ user.Deleted
             THEN UNCHANGED << allowedUsers, slackUserMap >>
             ELSE /\ slackUserMap' = MapPut(slackUserMap, user.Name, user.ID)
                  /\ allowedUsers' =
                       Append(allowedUsers, GithubUserOf(config.UserMapping, user.Name))
  /\ idx' = idx + 1
  /\ pc' = IF idx < Len(members) THEN "GetUserInfo" ELSE "FetchPullRequests.users"
  /\ UNCHANGED << outcome, collectorVars, members, githubToSlackMap,
                  enricherVars, publisherVars, runVars >>

(***************************************************************************)
(* PR Collector, monolithic: FetchPullRequests                             *)
(***************************************************************************)

\* Lines 259-263: the reverse map is filled while ranging over a Go map, in
\* no fixed order; of the chat users mapped to one code-host user, the one
\* visited last stays.
ReverseMaps(mapping) ==
  LET targets == { mapping[k] : k \in DOMAIN mapping }
  IN { r \in [targets -> DOMAIN mapping] : \A g \in targets : mapping[r[g]] = g }

\* Lines 249-283: back from the resolver; nothing to collect for nobody.
FetchPullRequestsUsers ==
  /\ pc = "FetchPullRequests.users"
  /\ IF Len(allowedUsers) = 0
     THEN /\ prs' = << >>
          /\ pc' = "UpdateJiraInfo"
          /\ UNCHANGED githubToSlackMap
     ELSE /\ \E r \in ReverseMaps(config.UserMapping) : githubToSlackMap' = r
          /\ pc' = IF config.DebugMode THEN "Users.Get" ELSE "PullRequests.List"
          /\ UNCHANGED prs
  /\ UNCHANGED << outcome, calls, ghOpts, hostOpen, allPRs, members, allowedUsers,
                  slackUserMap, idx, enricherVars, publisherVars, runVars >>

\* Lines 302-443: the filter loop and the return to RunReport.
FetchPullRequestsFilter ==
  /\ pc = "filter" /\ prog = "monolith"
  /\ IF MonoLoopPanics(allPRs, allowedUsers, config.DebugMode)
     THEN Panic /\ UNCHANGED prs
     ELSE /\ prs' = MonoLoop(allPRs, allowedUsers, githubToSlackMap, slackUserMap)
          /\ pc' = "UpdateJiraInfo"
          /\ UNCHANGED outcome
  /\ UNCHANGED << calls, ghOpts, hostOpen, allPRs, resolverVars, idx,
                  enricherVars, publisherVars, runVars >>

(***************************************************************************)
(* Ticket Enricher, monolithic: UpdateJiraInfo                             *)
(***************************************************************************)

HasJiraTickets(list) == \E i \in 1..Len(list) : list[i].JiraTicket # << >>

MonoCredentialsConfigured(cfg) ==
  ~(cfg.JiraUsername = "" \/ cfg.JiraAPIToken = "" \/ cfg.JiraURL = "")

\* A different RunReport: it returns when UpdateJiraInfo gave up.
AfterUpdateJiraInfo_Return(failed) ==
  IF failed THEN "exit" ELSE "SendSlackMessage"

\* RunReport, lines 683-690: whatever UpdateJiraInfo did, and whether or not
\* it gave up (failed), the report is sent next.
AfterUpdateJiraInfo(failed) == "SendSlackMessage"

\* Lines 447-483: the checks before any lookup; each failing one returns nil.
UpdateJiraInfoChecks ==
  /\ pc = "UpdateJiraInfo"
  /\ IF /\ HasJiraTickets(prs)
        /\ MonoCredentialsConfigured(config)
        /\ ~NewClientFails(config.JiraURL)
     THEN /\ pc' = IF config.DebugMode THEN "UpdateJiraInfo.GetSelf"
                   ELSE "UpdateJiraInfo.loop"
          /\ idx' = 1
     ELSE /\ pc' = AfterUpdateJiraInfo(HasJiraTickets(prs))
          /\ UNCHANGED idx
  /\ UNCHANGED << outcome, calls, collectorVars, resolverVars, enricherVars,
                  publisherVars, runVars >>

\* Lines 485-494: the debug-mode connection test; a failure returns nil.
UpdateJiraInfoGetSelf ==
  /\ pc = "UpdateJiraInfo.GetSelf"
  /\ \E ok \in BOOLEAN :
       /\ ok \/ scenario = "enrich"
       /\ calls' = Append(calls, Call("jira", "User.GetSelf", << >>, ok))
       /\ pc' = IF ok THEN "UpdateJiraInfo.loop" ELSE AfterUpdateJiraInfo(TRUE)
  /\ UNCHANGED << outcome, collectorVars, resolverVars, idx, enricherVars,
                  publisherVars, runVars >>

\* Lines 496-583: one PR of the loop.
UpdateJiraInfoStep ==
  /\ pc = "UpdateJiraInfo.loop" /\ idx <= Len(prs)
  /\ IF prs[idx].JiraTicket = << >>
     THEN UNCHANGED << calls, prs >>
     ELSE \E resp \in TrackerResponses(scenario) :
            /\ calls' = Append(calls, Call("jira", "Issue.Get", prs[idx].JiraTicket, resp))
            /\ prs' = [prs EXCEPT ![idx] = UpdateJiraPR(@, resp)]
  /\ idx' = idx + 1
  /\ pc' = IF idx < Len(prs) THEN "UpdateJiraInfo.loop"
           ELSE AfterUpdateJiraInfo(FALSE)
  /\ UNCHANGED << outcome, ghOpts, hostOpen, allPRs, resolverVars, enricherVars,
                  publisherVars, runVars >>

(***************************************************************************)
(* Publisher, monolithic: SendSlackMessage and the end of RunReport        *)
(***************************************************************************)

\* A different RunReport: it posts the report first and enriches afterwards.
SendSlackMessage_ThenEnrich ==
  /\ pc = "SendSlackMessage"
  /\ \E today \in Days(scenario), ok \in BOOLEAN :
       PostMessage(config.SlackChannel, RenderMessage(config, prs, today), ok)
  /\ pc' = "UpdateJiraInfo"
  /\ UNCHANGED << outcome, collectorVars, resolverVars, idx, enricherVars,
                  slackPRs, slackOpts, runVars >>

\* Lines 589-697: render, post once; the post's error is RunReport's.
SendSlackMessage ==
  /\ pc = "SendSlackMessage"
  /\ \E today \in Days(scenario), ok \in BOOLEAN :
       /\ PostMessage(config.SlackChannel, RenderMessage(config, prs, today), ok)
       /\ IF ok THEN pc' = "exit" /\ outcome' = "ok" ELSE PostFailed
  /\ UNCHANGED << collectorVars, resolverVars, idx, enricherVars, slackPRs,
                  slackOpts, runVars >>

Next ==
  \/ MainFetchPRs
  \/ FetchPRsValidate
  \/ UsersGet
  \/ PullRequestsList
  \/ FetchPRsFilter
  \/ MainJira
  \/ FetchTicketsInfoStep
  \/ MainSlackPRs
  \/ MainSend
  \/ SendPRReportValidate
  \/ SendPRReportAuthTest
  \/ SendPRReportPost
  \/ MonoLoadConfig
  \/ SlackAuthTest
  \/ GetConversationsTyped
  \/ GetConversationsAll
  \/ GetUsersInConversation
  \/ GetUserInfoStep
  \/ FetchPullRequestsUsers
  \/ FetchPullRequestsFilter
  \/ UpdateJiraInfoChecks
  \/ UpdateJiraInfoGetSelf
  \/ UpdateJiraInfoStep
  \/ SendSlackMessage

Spec == Init /\ [][Next]_vars

(***************************************************************************)
(* Properties                                                              *)
(*                                                                         *)
(* Vocabulary: what a state tells about the run so far.                    *)
(***************************************************************************)

Made(op) == \E i \in 1..Len(calls) : calls[i].op = op

CallsOf(op) == SelectSeq(calls, LAMBDA c : c.op = op)

Numbers(list) == [i \in 1..Len(list) |-> list[i].Number]

\* The listed PR a collected PR was made from: PRs are numbered by position.
Listed(pr) == hostOpen[pr.Number]

\* GetSlackChannelUsers has returned a permitted set without an error.
ResolverReturned ==
  /\ prog = "monolith"
  /\ pc \notin {"GetUsersInConversation", "GetUserInfo"}
  /\ \E i \in 1..Len(calls) :
       calls[i].op = "GetUsersInConversation" /\ calls[i].ret

\* The monolith's collector has returned early, for nobody is permitted.
ReturnedForNobody ==
  ResolverReturned /\ allowedUsers = << >> /\ pc # "FetchPullRequests.users"

\* The collector has listed the open PRs and returned its result.
CollectorReturned ==
  /\ pc # "filter" /\ outcome # "panic"
  /\ \E i \in 1..Len(calls) : calls[i].op = "PullRequests.List" /\ calls[i].ret

\* The author and label criteria as the running collector applies them.
Qualifies(pr) ==
  IF prog = "monolith" THEN MonoKeeps(pr, allowedUsers)
  ELSE FetchPRsKeeps(pr, ghOpts)

\* C1, as stated: when the resolver yields an empty permitted set, no PR is
\* listed or collected and no message is posted in that run.
C1_EmptySetPublishesNothing ==
  ReturnedForNobody =>
    /\ prs = << >>
    /\ ~Made("PullRequests.List")
    /\ ~Made("PostMessage")
    /\ outbox = << >>

\* C2, as stated: the collector goes through every page of the listing, so
\* every open PR of the repository that satisfies the author and label
\* criteria is among the collected PRs, whatever page it is on.
C2_EveryPageCollected ==
  CollectorReturned =>
    \A i \in 1..Len(hostOpen) :
      Qualifies(hostOpen[i]) =>
        \E j \in 1..Len(prs) : prs[j].Number = hostOpen[i].Number

\* Text comparison as the claims word it: equality and containment of the
\* lower-cased texts, character by character.
FoldedEqual(a, b) ==
  /\ Len(a) = Len(b)
  /\ \A k \in 1..Len(a) : ToLowerChar(a[k]) = ToLowerChar(b[k])

FoldedSubstring(text, term) ==
  \E k \in 0..Len(text) :
    /\ k + Len(term) <= Len(text)
    /\ \A j \in 1..Len(term) : ToLowerChar(text[k + j]) = ToLowerChar(term[j])

\* L, the label filter in force: the modular collector's option, the
\* monolith's fixed label.
LabelFilter == IF prog = "monolith" THEN << sPoker >> ELSE ghOpts.Labels

\* U, the permitted authors in force.
AllowList == IF prog = "monolith" THEN allowedUsers ELSE ghOpts.AllowedUsers

LabelCriterion(pr) ==
  \/ LabelFilter = << >>
  \/ \E a \in 1..Len(pr.Labels), b \in 1..Len(LabelFilter) :
       pr.Labels[a] # NIL /\ FoldedSubstring(pr.Labels[a], LabelFilter[b])

\* C3: with a non-empty label filter L a PR is collected only if one of its
\* labels contains one of L's terms as a substring, compared case-insensitively.
C3_LabelFilterOnlyIf ==
  \A i \in 1..Len(prs) : LabelCriterion(Listed(prs[i]))

\* A PR was collected under a filter of two terms while a listed PR that has
\* an author and a label was left out for its labels.
C3_Witness ==
  /\ prog = "middletier" /\ CollectorReturned
  /\ Len(ghOpts.Labels) = 2
  /\ Len(prs) > 0
  /\ \E i \in 1..Len(allPRs) :
       /\ allPRs[i].User # NIL /\ Len(allPRs[i].Labels) > 0
       /\ \A j \in 1..Len(prs) : prs[j].Number # allPRs[i].Number

\* With no permitted authors given, FetchPRs keeps every listed PR that has
\* an author and meets the label criterion.
NoAuthorFilterWhenEmpty ==
  (prog # "monolith" /\ CollectorReturned /\ ghOpts.AllowedUsers = << >>) =>
    \A i \in 1..Len(allPRs) :
      (allPRs[i].User # NIL /\ LabelCriterion(allPRs[i])) =>
        \E j \in 1..Len(prs) : prs[j].Number = allPRs[i].Number

\* C4, as stated: a PR by author A is collected only if A is present and
\* equals some entry of U under case folding; with U empty every PR with an
\* author passes.
C4_AuthorEqualsEntry ==
  /\ \A i \in 1..Len(prs) :
       LET pr == Listed(prs[i])
       IN /\ pr.User # NIL
          /\ \/ AllowList = << >>
             \/ \E k \in 1..Len(AllowList) : FoldedEqual(pr.User, AllowList[k])
  /\ NoAuthorFilterWhenEmpty

\* C4, amended: a PR by author A is collected only if A is present and
\* equals, under case folding, some entry of U with the white space around
\* it trimmed, a blank entry matching nobody; with U empty FetchPRs applies
\* no author filter.
C4_AuthorEqualsTrimmedEntry ==
  /\ \A i \in 1..Len(prs) :
       LET pr == Listed(prs[i])
       IN /\ pr.User # NIL
          /\ \/ AllowList = << >>
             \/ \E k \in 1..Len(AllowList) :
                  LET entry == TrimSpace(AllowList[k])
                  IN entry # << >> /\ FoldedEqual(pr.User, entry)
  /\ NoAuthorFilterWhenEmpty

\* FetchPRs, given the one entry " al ", kept a PR by AL and left out a PR
\* by zz.
C4_Witness ==
  /\ prog = "FetchPRs" /\ pc = "exit" /\ outcome = "ok"
  /\ ghOpts.AllowedUsers = << nAlSp >>
  /\ \E i \in 1..Len(prs) : Listed(prs[i]).User = nAlUp
  /\ \E i \in 1..Len(allPRs) :
       /\ allPRs[i].User = nZz
       /\ \A j \in 1..Len(prs) : prs[j].Number # allPRs[i].Number

\* Where the listing has the PR of this number.
Position(number) ==
  CHOOSE k \in 1..Len(hostOpen) : hostOpen[k].Number = number

\* The numbers are numbers of listed PRs, in the order of the listing and
\* none of them twice.
InListingOrder(numbers) ==
  /\ \A i \in 1..Len(numbers) :
       \E k \in 1..Len(hostOpen) : hostOpen[k].Number = numbers[i]
  /\ \A i \in 1..(Len(numbers) - 1) :
       Position(numbers[i]) < Position(numbers[i + 1])

PRLines(message) == SelectSeq(message, LAMBDA line : line.kind = "pr")

\* C5: the collected PRs, and the PR lines of every report handed to the
\* chat service, are a subsequence of the code host's listing: in its order,
\* nothing twice, the lines numbered 1, 2, ...
C5_ListingOrder ==
  /\ InListingOrder(Numbers(prs))
  /\ InListingOrder(Numbers(slackPRs))
  /\ \A m \in 1..Len(calls) :
       calls[m].op = "PostMessage" =>
         LET lines == PRLines(calls[m].arg)
         IN /\ InListingOrder(Numbers(lines))
            /\ \A i \in 1..Len(lines) : lines[i].Ordinal = i

\* A report of two PR lines or more was posted, with a listed PR left out.
C5_Witness ==
  \E m \in 1..Len(calls) :
    /\ calls[m].op = "PostMessage"
    /\ Len(PRLines(calls[m].arg)) >= 2
    /\ Len(PRLines(calls[m].arg)) < Len(hostOpen)

\* The ticket lookups made so far, in order: ticket ID and tracker response.
Lookups == CallsOf("Issue.Get")

\* The collected PRs that name a ticket, in order.
TicketedPRs == SelectSeq(prs, LAMBDA pr : pr.JiraTicket # << >>)

\* The collector has handed its PRs to the rest of the run.
CollectorDone == prog # "FetchPRs" /\ (CollectorReturned \/ ReturnedForNobody)

\* The enricher has returned to its caller.
EnricherReturned ==
  /\ CollectorDone
  /\ pc \notin {"main.jira", "FetchTicketsInfo", "UpdateJiraInfo",
                "UpdateJiraInfo.GetSelf", "UpdateJiraInfo.loop"}

\* The tickets the enricher is to look up, in order.
TicketsToLookUp ==
  IF prog = "monolith"
  THEN [i \in 1..Len(TicketedPRs) |-> TicketedPRs[i].JiraTicket]
  ELSE jiraTicketIDs

\* A PR as the collector hands it over, before any enrichment.
Unenriched(pr) ==
  [pr EXCEPT !.JiraStatus = << >>, !.Description = << >>, !.IsBlocked = FALSE]

\* The k-th lookup is the last one so far of its ticket.
LastOfItsTicket(k) ==
  \A l \in (k + 1)..Len(Lookups) : Lookups[l].arg # Lookups[k].arg

\* C6: the lookups are independent.  Once lookups are made, every ticket is
\* looked up, whichever lookups fail, and what is held for a ticket is what
\* its own response alone gives, whatever the other responses were.
C6_LookupsIndependent ==
  LET made == Lookups
      held == TicketedPRs
  IN /\ (EnricherReturned /\ Len(made) > 0) =>
          [k \in 1..Len(made) |-> made[k].arg] = TicketsToLookUp
     /\ \A k \in 1..Len(made) :
          IF prog = "monolith"
          THEN held[k] = UpdateJiraPR(Unenriched(held[k]), made[k].ret)
          ELSE (\A l \in (k + 1)..Len(made) : made[l].arg # made[k].arg) =>
                 /\ made[k].arg \in DOMAIN jiraInfo.map
                 /\ jiraInfo.map[made[k].arg] =
                      TicketsInfoEntry(jiraOpts, made[k].arg, made[k].ret)

\* FetchTicketsInfo returned after two lookups: the first failed, the second,
\* of another ticket, succeeded and its status is held.
C6_Witness ==
  /\ prog = "middletier" /\ EnricherReturned
  /\ Len(Lookups) = 2
  /\ Lookups[1].arg # Lookups[2].arg
  /\ Lookups[1].ret.kind = "error"
  /\ Lookups[2].ret.kind = "ok"
  /\ jiraInfo.map[Lookups[1].arg].Status = sError
  /\ jiraInfo.map[Lookups[2].arg].Status = tOpen

\* The run has entered the publisher: SendPRReport or SendSlackMessage.
PublisherEntered ==
  IF prog = "monolith"
  THEN pc = "SendSlackMessage" \/ Made("PostMessage")
  ELSE DOMAIN slackOpts # {}

\* SendPRReport returned before posting: a required option is missing or its
\* debug-mode authentication test failed.
PublisherRefused ==
  /\ prog = "middletier" /\ DOMAIN slackOpts # {} /\ pc = "exit"
  /\ \/ slackOpts.Token = "" \/ slackOpts.Channel = ""
     \/ slackOpts.GithubOwner = "" \/ slackOpts.GithubRepo = ""
     \/ /\ Len(calls) > 0
        /\ calls[Len(calls)].op = "AuthTest" /\ ~calls[Len(calls)].ret

\* C7, as stated: whenever the collector succeeded, the run reaches the
\* publisher and attempts to post the report, whatever ticket lookups or
\* tracker client setup failed.
C7_PostAlwaysAttempted ==
  (pc = "exit" /\ CollectorDone) => Made("PostMessage")

\* C7, amended: once the collector succeeded the run neither stops nor
\* fails before the publisher, whatever ticket lookups or tracker client
\* setup failed, and it ends with the post attempted unless the publisher
\* itself returned on a missing option or a failed authentication test.
C7_EnricherNeverAborts ==
  /\ (CollectorDone /\ pc # "exit") => ENABLED Next
  /\ (CollectorDone /\ pc = "exit") =>
       /\ PublisherEntered
       /\ Made("PostMessage") \/ PublisherRefused

\* A run ended with a post after a failed ticket lookup.
C7_Witness ==
  /\ pc = "exit" /\ Made("PostMessage")
  /\ \E k \in 1..Len(Lookups) : Lookups[k].ret.kind = "error"

\* No tracker URL, user name or token is configured.
TrackerUnconfigured ==
  IF prog = "monolith"
  THEN config.JiraURL = "" /\ config.JiraUsername = "" /\ config.JiraAPIToken = ""
  ELSE jiraOpts.URL = "" /\ jiraOpts.Username = "" /\ jiraOpts.APIToken = ""

\* C8, as stated: with no tracker credentials configured the enricher is
\* skipped: no lookup is made, no Ticket Info has status Error, every
\* collected PR keeps an empty status and is reported as Unknown.
C8_SkippedWithoutCredentials ==
  (EnricherReturned /\ TrackerUnconfigured) =>
    /\ ~Made("Issue.Get")
    /\ \A t \in DOMAIN jiraInfo.map : jiraInfo.map[t].Status # sError
    /\ \A i \in 1..Len(prs) : prog = "monolith" => prs[i].JiraStatus = << >>
    /\ \A i \in 1..Len(slackPRs) : slackPRs[i].JiraStatus = << >>
    /\ \A m \in 1..Len(calls) :
         calls[m].op = "PostMessage" =>
           \A i \in 1..Len(PRLines(calls[m].arg)) :
             PRLines(calls[m].arg)[i].Status = sUnknown

\* C9, as stated: a failed lookup never ends the run from within the
\* enricher; a 404 leaves status Not Found, any other failure leaves status
\* Error and the error's text as the summary.
C9_FailedLookupIsTicketInfo ==
  /\ (Len(Lookups) > 0 /\ outcome = "failed") => PublisherEntered
  /\ \A k \in 1..Len(Lookups) :
       LET kind == Lookups[k].ret.kind
           held == IF prog = "monolith"
                   THEN [Status  |-> TicketedPRs[k].JiraStatus,
                         Summary |-> TicketedPRs[k].Description]
                   ELSE [Status  |-> jiraInfo.map[Lookups[k].arg].Status,
                         Summary |-> jiraInfo.map[Lookups[k].arg].Summary]
       IN (prog = "monolith" \/ LastOfItsTicket(k)) =>
            /\ kind = "notfound" => held.Status = sNotFound
            /\ kind = "error" =>
                 /\ held.Status = sError
                 /\ Contains(held.Summary, Lookups[k].ret.cause)

\* A call of the resolver or of the collector that makes it return an error.
FailedFetchCall(c) ==
  \/ c.op \in {"Users.Get", "PullRequests.List", "GetUsersInConversation"} /\ ~c.ret
  \/ c.op = "AuthTest" /\ prog = "monolith" /\ ~c.ret
  \/ c.op = "GetConversations" /\ c.arg = 0 /\ c.ret # "found"

\* FetchPRs returned an error for a missing option.
FetchOptionsRejected ==
  /\ prog # "monolith" /\ pc \notin {"start", "FetchPRs"}
  /\ ghOpts.Token = "" \/ ghOpts.Owner = "" \/ ghOpts.Repo = ""

\* C10: an error of the resolver or of the collector ends the run at once
\* as failed: the failing call is the run's last, no ticket is looked up and
\* no message is posted.
C10_FetchFailureAborts ==
  /\ \A i \in 1..Len(calls) :
       FailedFetchCall(calls[i]) =>
         /\ i = Len(calls)
         /\ pc = "exit" /\ outcome = "failed"
         /\ ~Made("Issue.Get") /\ ~Made("PostMessage")
         /\ outbox = << >>
  /\ FetchOptionsRejected =>
       pc = "exit" /\ outcome = "failed" /\ calls = << >> /\ outbox = << >>

\* The monolith's resolver gave a permitted set, then the listing failed.
C10_Witness ==
  /\ prog = "monolith" /\ pc = "exit"
  /\ Len(allowedUsers) > 0
  /\ Len(calls) > 0
  /\ calls[Len(calls)].op = "PullRequests.List" /\ ~calls[Len(calls)].ret

\* C11, as stated: the resolver fails, and the run aborts, whenever the chat
\* service rejects the member enumeration or any member's profile lookup.
C11_RejectedLookupAborts ==
  \A i \in 1..Len(calls) :
    (calls[i].op \in {"GetUsersInConversation", "GetUserInfo"} /\ ~calls[i].ret) =>
      /\ i = Len(calls)
      /\ pc = "exit" /\ outcome = "failed"

\* C12: a post the chat service rejects ends the run as failed, at once:
\* it is the run's only post and its last call, and nothing was published.
C12_RejectedPostFails ==
  \A i \in 1..Len(calls) :
    (calls[i].op = "PostMessage" /\ ~calls[i].ret) =>
      /\ i = Len(calls)
      /\ Len(CallsOf("PostMessage")) = 1
      /\ pc = "exit" /\ outcome = "failed"
      /\ outbox = << >>

\* The middletier's report, with a PR line, was rejected by the chat service.
C12_Witness ==
  /\ prog = "middletier" /\ pc = "exit"
  /\ Len(calls) > 0
  /\ calls[Len(calls)].op = "PostMessage" /\ ~calls[Len(calls)].ret
  /\ Len(PRLines(calls[Len(calls)].arg)) > 0

\* The vocabulary of the blocked derivation, as the claims word it.
BlockedWords == { sBlock, sImpediment, sPause }

\* The status name and the labels of a fetched issue, where it has any.
TextsOf(issue) ==
  IF issue.nil \/ issue.Fields.nil THEN {}
  ELSE (IF issue.Fields.Status.nil THEN {} ELSE { issue.Fields.Status.Name })
       \cup { issue.Fields.Labels[i] : i \in 1..Len(issue.Fields.Labels) }

\* What is held for the ticket of the k-th lookup.
HeldFor(k) ==
  IF prog = "monolith"
  THEN [Status    |-> TicketedPRs[k].JiraStatus,
        Summary   |-> TicketedPRs[k].Description,
        IsBlocked |-> TicketedPRs[k].IsBlocked]
  ELSE [Status    |-> jiraInfo.map[Lookups[k].arg].Status,
        Summary   |-> jiraInfo.map[Lookups[k].arg].Summary,
        IsBlocked |-> jiraInfo.map[Lookups[k].arg].IsBlocked]

\* C13: a ticket's blocked flag is true exactly if its status name or one
\* of its labels contains, case-insensitively, block, impediment or pause;
\* the status name itself is kept as the status.
C13_BlockedIffVocabulary ==
  \A k \in 1..Len(Lookups) :
    (prog = "monolith" \/ LastOfItsTicket(k)) =>
      IF Lookups[k].ret.kind = "ok"
      THEN /\ HeldFor(k).IsBlocked <=>
                \E text \in TextsOf(Lookups[k].ret.issue), word \in BlockedWords :
                  FoldedSubstring(text, word)
           /\ \A name \in { tBlockedWaiting, tImpediment, tOpen } :
                (HasFields(Lookups[k].ret.issue)
                 /\ ~Lookups[k].ret.issue.Fields.Status.nil
                 /\ Lookups[k].ret.issue.Fields.Status.Name = name) =>
                  HeldFor(k).Status = name
      ELSE ~HeldFor(k).IsBlocked

\* A ticket of status "Blocked - Waiting" is held as blocked, with that status.
C13_Witness ==
  \E k \in 1..Len(Lookups) :
    /\ prog = "middletier" /\ LastOfItsTicket(k)
    /\ Lookups[k].ret = respBlocked
    /\ HeldFor(k).IsBlocked
    /\ HeldFor(k).Status = tBlockedWaiting

\* C14: within one evaluation of a ticket the blocked flag, once true, stays
\* true through every later check, and the flag held is the one the
\* evaluation ends with.
C14_BlockedMonotonic ==
  \A k \in 1..Len(Lookups) :
    (Lookups[k].ret.kind = "ok" /\ HasFields(Lookups[k].ret.issue)) =>
      LET trace == BlockedTrace(FALSE, Lookups[k].ret.issue.Fields)
      IN /\ \A i \in 1..(Len(trace) - 1) : trace[i] => trace[i + 1]
         /\ (prog = "monolith" \/ LastOfItsTicket(k)) =>
              HeldFor(k).IsBlocked = trace[Len(trace)]

\* A ticket was evaluated whose status check set the flag and whose label
\* check, of a label outside the vocabulary, came after it.
C14_Witness ==
  \E k \in 1..Len(Lookups) :
    /\ Lookups[k].ret.kind = "ok" /\ HasFields(Lookups[k].ret.issue)
    /\ LET trace == BlockedTrace(FALSE, Lookups[k].ret.issue.Fields)
       IN Len(trace) = 3 /\ ~trace[1] /\ trace[2] /\ trace[3]
    /\ HeldFor(k).IsBlocked

\* C15: every distinct ticket is looked up once in a run, even when several
\* PRs name the same ticket: no two lookups of a run are of the same ticket.
C15_EachTicketLookedUpOnce ==
  \A k, l \in 1..Len(Lookups) :
    Lookups[k].arg = Lookups[l].arg => k = l

\* The publisher's required options are all present.
PublisherOptionsValid ==
  IF prog = "monolith"
  THEN config.SlackToken # "" /\ config.SlackChannel # ""
  ELSE /\ slackOpts.Token # "" /\ slackOpts.Channel # ""
       /\ slackOpts.GithubOwner # "" /\ slackOpts.GithubRepo # ""

\* The PRs the publisher was given.
ReportedPRs == IF prog = "monolith" THEN prs ELSE slackPRs

Posts == CallsOf("PostMessage")

StageOfCall(c) ==
  IF c.op \in {"PullRequests.List", "Users.Get"} THEN 2
  ELSE IF c.op \in {"Issue.Get", "User.GetSelf"} THEN 3
  ELSE IF c.op = "PostMessage" THEN 4
  ELSE IF c.op = "AuthTest" /\ prog # "monolith" THEN 4
  ELSE 1

\* The stage the run is in: 0 before the first stage, 5 after the last.
StageOfRun ==
  IF pc = "start" THEN 0
  ELSE IF pc \in {"GetSlackChannelUsers.AuthTest", "GetSlackChannelUsers.typed",
                  "GetSlackChannelUsers.all", "GetUsersInConversation",
                  "GetUserInfo", "FetchPullRequests.users"} THEN 1
  ELSE IF pc \in {"FetchPRs", "Users.Get", "PullRequests.List", "filter"} THEN 2
  ELSE IF pc \in {"main.jira", "FetchTicketsInfo", "UpdateJiraInfo",
                  "UpdateJiraInfo.GetSelf", "UpdateJiraInfo.loop"} THEN 3
  ELSE IF pc = "exit" THEN 5
  ELSE 4

\* C17: the stages run in the order Resolver, Collector, Enricher,
\* Publisher, none of them twice: the remote calls of a run are made in the
\* order of their stages, so every ticket lookup follows the one PR listing
\* and the one post follows every ticket lookup; and the run is never in a
\* stage earlier than one it has already made a call of.
C17_StagesInOrder ==
  /\ \A i \in 1..(Len(calls) - 1) :
       StageOfCall(calls[i]) <= StageOfCall(calls[i + 1])
  /\ Len(calls) > 0 => StageOfCall(calls[Len(calls)]) <= StageOfRun
  /\ Len(CallsOf("PullRequests.List")) <= 1
  /\ Len(CallsOf("GetUsersInConversation")) <= 1
  /\ Len(CallsOf("PostMessage")) <= 1
  /\ \A i, j \in 1..Len(calls) :
       /\ (calls[i].op = "Issue.Get" /\ calls[j].op = "PostMessage") => i < j
       /\ (calls[i].op = "PullRequests.List" /\ calls[j].op = "Issue.Get") => i < j

\* A monolith run ended after calls of all four stages: member profiles,
\* the listing, two ticket lookups and the post.
C17_Witness ==
  /\ prog = "monolith" /\ pc = "exit"
  /\ Made("GetUserInfo") /\ Made("PullRequests.List")
  /\ Len(Lookups) = 2 /\ Made("PostMessage")

\* The PR lines of the posts made so far.
PostedPRLines ==
  LET posted == Posts
  IN UNION { { PRLines(posted[k].arg)[i] : i \in 1..Len(PRLines(posted[k].arg)) } :
             k \in 1..Len(posted) }

\* The assignee's login on the code host, NIL when the PR has no assignee.
LoginOf(line) == hostOpen[line.Number].Assignee

\* The chat IDs the run knows, under whatever name.
KnownChatIDs ==
  IF prog = "monolith"
  THEN { slackUserMap[n] : n \in DOMAIN slackUserMap }
  ELSE { githubToSlackMap[n] : n \in DOMAIN githubToSlackMap }

ChatNameOf(login) ==
  IF prog = "monolith" /\ login \in DOMAIN githubToSlackMap
  THEN githubToSlackMap[login] ELSE login

\* The directory in which that name is looked up for a chat ID.
ChatIDs == IF prog = "monolith" THEN slackUserMap ELSE githubToSlackMap

ReportedAs(line) == ReportedPRs[line.Ordinal]

\* C19: the description of a PR line is the PR's title when the PR has no
\* ticket.
C19_NoTicketShowsTitle ==
  \A line \in PostedPRLines :
    ReportedAs(line).JiraTicket = << >> =>
      line.Description = hostOpen[line.Number].Title

\* C20: the ticket field of a PR line is a link to the ticket when the PR
\* has a ticket identifier, and the text N/A when it has none.
C20_TicketLinkOrNA ==
  \A line \in PostedPRLines :
    IF ReportedAs(line).JiraTicket = << >>
    THEN ~line.Jira.link /\ line.Jira.text = <<"N", "/", "A">>
    ELSE line.Jira.link /\ line.Jira.text = ReportedAs(line).JiraTicket

\* The lines of a kind in a message.
LinesOfKind(message, kind) == SelectSeq(message, LAMBDA line : line.kind = kind)

\* Some PR handed to the publisher is blocked; is a draft; is a draft that
\* is not blocked.
AnyBlocked == \E i \in 1..Len(ReportedPRs) : ReportedPRs[i].IsBlocked
AnyDraft == \E i \in 1..Len(ReportedPRs) : ReportedPRs[i].IsDraft
AnyDraftOnly ==
  \E i \in 1..Len(ReportedPRs) :
    ReportedPRs[i].IsDraft /\ ~ReportedPRs[i].IsBlocked

\* C21, as stated: the footer has a draft summary line exactly if at least
\* one PR is a draft.
C21_DraftLineIffAnyDraft ==
  \A k \in 1..Len(Posts) :
    Len(LinesOfKind(Posts[k].arg, "draft")) > 0 <=> AnyDraft

\* C21, amended: the footer has one blocked summary line exactly if some PR
\* is blocked, one draft summary line exactly if some PR is a draft that is
\* not blocked, and the single N/A line exactly if no PR is blocked and no
\* PR is a draft.
C21_FooterLines ==
  \A k \in 1..Len(Posts) :
    LET message == Posts[k].arg
    IN /\ Len(LinesOfKind(message, "blocked")) = (IF AnyBlocked THEN 1 ELSE 0)
       /\ Len(LinesOfKind(message, "draft")) = (IF AnyDraftOnly THEN 1 ELSE 0)
       /\ Len(LinesOfKind(message, "na")) =
            (IF ~AnyBlocked /\ ~AnyDraft THEN 1 ELSE 0)

\* A report was posted whose only draft PR is also blocked: it has the
\* blocked line and no draft line.
C21_Witness ==
  /\ Len(Posts) = 1
  /\ AnyDraft /\ ~AnyDraftOnly
  /\ Len(LinesOfKind(Posts[1].arg, "blocked")) = 1
  /\ Len(LinesOfKind(Posts[1].arg, "draft")) = 0

\* The handle of a team group, as the chat service's markup writes it.
GroupHandle(group) == <<"<", "!", "s", "u", "b", "t", "e", "a", "m", "^">> \o group \o <<">">>

\* The addressee is a user mention <@id> of an ID written in the list.
IsUserMentionOf(who, list) ==
  /\ Len(who) > 3
  /\ who[1] = "<" /\ who[2] = "@" /\ who[Len(who)] = ">"
  /\ LET id == SubSeq(who, 3, Len(who) - 1)
     IN /\ \A i \in 1..Len(id) : id[i] \notin {" ", ","}
        /\ \E k \in 0..(Len(list) - Len(id)) :
             \A j \in 1..Len(id) : list[k + j] = id[j]

\* The explicit list and the team group the publisher was configured with;
\* the monolith knows no explicit list.
ExplicitList == IF prog = "monolith" THEN << >> ELSE slackOpts.MentionUsers
ConfiguredGroup == IF prog = "monolith" THEN config.TeamGroup ELSE slackOpts.TeamGroup

\* C22: a posted report has at most one mention line, addressed to the
\* explicit list or to the team group and never to both: with an explicit
\* list configured, with or without a team group, every addressee is a user
\* mention of an ID of the list; with only the team group configured the
\* one addressee is the team group's handle.
C22_MentionLineExclusive ==
  \A k \in 1..Len(Posts) :
    LET lines == LinesOfKind(Posts[k].arg, "mention")
    IN /\ Len(lines) <= 1
       /\ ExplicitList # << >> =>
            \A l \in 1..Len(lines) : \A i \in 1..Len(lines[l].who) :
              IsUserMentionOf(lines[l].who[i], ExplicitList)
       /\ (ExplicitList = << >> /\ ConfiguredGroup # << >>) =>
            /\ Len(lines) = 1
            /\ lines[1].who = << GroupHandle(ConfiguredGroup) >>

\* A report was posted with both an explicit list of two IDs and a team
\* group configured: its mention line addresses the two IDs.
C22_Witness ==
  /\ prog = "middletier" /\ Len(Posts) = 1
  /\ slackOpts.MentionUsers # << >> /\ slackOpts.TeamGroup # << >>
  /\ LET lines == LinesOfKind(Posts[1].arg, "mention")
     IN Len(lines) = 1 /\ Len(lines[1].who) = 2

\* Two messages are identical except for the current-date line.
SameButDate(m1, m2) ==
  /\ Len(m1) = Len(m2)
  /\ \A i \in 1..Len(m1) :
       IF m1[i].kind = "date" THEN m2[i].kind = "date" ELSE m1[i] = m2[i]

\* The days on which a report may be rendered.
RenderingDays == {"2026-11-04", "2026-11-05"}

C24_AbsentTitleNeverCrashes ==
  (~debug /\ \E i \in 1..Len(allPRs) : allPRs[i].Title = NIL) =>
    outcome # "panic"

\* The channel members that are neither a bot nor deactivated, in order.
PeopleOf(ms) ==
  SelectSeq(ms, LAMBDA m : ~Directory[m].IsBot /\ ~Directory[m].Deleted)

\* The code-host username the mapping table gives a chat username: the
\* mapped one if the table has the chat username, else the same name.
PermittedNameOf(name) ==
  IF \E k \in DOMAIN config.UserMapping : k = name
  THEN config.UserMapping[name] ELSE name

\* C25: once the resolver has returned, the permitted set holds exactly one
\* code-host username per channel member that is neither a bot nor
\* deactivated, the mapped username or else the chat username, and the
\* mention map holds exactly those members.
C25_OnePerMember ==
  ResolverReturned =>
    LET people == PeopleOf(members)
    IN /\ allowedUsers =
            [i \in 1..Len(people) |-> PermittedNameOf(Directory[people[i]].Name)]
       /\ DOMAIN slackUserMap =
            { Directory[people[i]].Name : i \in 1..Len(people) }

\* The remote calls only a debug-mode run makes.
DebugOnlyOps == {"Users.Get", "AuthTest", "User.GetSelf"}

\* C26: the debug toggle affects only logging.  A run's outcome is then
\* never decided by something only a debug-mode run does: no run ends as
\* failed on the rejection of a call that only debug mode makes, and no
\* run crashes over a listing without an absent title, the one thing a run
\* without debug crashes on.
C26_DebugOnlyLogs ==
  /\ (pc = "exit" /\ outcome = "failed" /\ Len(calls) > 0) =>
       ~(calls[Len(calls)].op \in DebugOnlyOps /\ calls[Len(calls)].ret = FALSE)
  /\ outcome = "panic" => \E i \in 1..Len(allPRs) : allPRs[i].Title = NIL

\* The reverse mappings of a mapping table: each code-host username of the
\* table goes to a chat username the table maps to it.
Inverses(table) ==
  { r \in [{ table[k] : k \in DOMAIN table } -> DOMAIN table] :
      \A g \in DOMAIN r : table[r[g]] = g }

\* C27: the reverse mapping FetchPullRequests builds is a function of the
\* mapping table: every run with a table builds the same reverse mapping,
\* one fixed inverse of the table.
C27_ReverseMapIsFunction ==
  (prog = "monolith" /\ Len(allowedUsers) > 0
   /\ pc \in {"Users.Get", "PullRequests.List", "filter"}) =>
    githubToSlackMap = CHOOSE r \in Inverses(config.UserMapping) : TRUE

\* What the modular enricher, joined onto the PR by main, gives a PR whose
\* ticket got this response, with the monolith's credentials as basic auth.
ModularFor(ticketID, resp) ==
  TicketsInfoEntry(
    JiraOptions(config.JiraURL, config.JiraUsername, config.JiraAPIToken,
                FALSE, config.DebugMode),
    ticketID, resp)

\* C28: the two enrichers agree.  What the monolith holds for a PR after
\* its ticket's lookup (status, description, blocked flag) is what the
\* modular enricher gives for the same ticket and the same response.
C28_EnrichersAgree ==
  prog = "monolith" =>
    \A k \in 1..Len(Lookups) :
      LET modular == ModularFor(Lookups[k].arg, Lookups[k].ret)
      IN /\ HeldFor(k).Status = modular.Status
         /\ HeldFor(k).Summary = modular.Summary
         /\ HeldFor(k).IsBlocked = modular.IsBlocked

\* The references of the summary line of a kind in a message, none if the
\* message has no such line.
RefsOf(message, kind) ==
  LET lines == LinesOfKind(message, kind)
  IN IF Len(lines) = 0 THEN << >> ELSE lines[1].refs

\* How often, and how, a list refers to the PR of a number.
RefsTo(refs, number) == SelectSeq(refs, LAMBDA r : r.Number = number)

\* C29: in the footer every PR is referred to in at most one of the two
\* summary lists.  A PR that is blocked and draft is in the blocked list
\* once, marked as blocked and draft, and not in the draft list; a PR that
\* is only blocked is in the blocked list once, unmarked; a PR that is only
\* a draft is in the draft list once; a PR that is neither is in no list.
C29_OneSummaryListPerPR ==
  \A k \in 1..Len(Posts) :
    LET blockedRefs == RefsOf(Posts[k].arg, "blocked")
        draftRefs   == RefsOf(Posts[k].arg, "draft")
    IN \A i \in 1..Len(ReportedPRs) :
         LET pr        == ReportedPRs[i]
             inBlocked == RefsTo(blockedRefs, pr.Number)
             inDraft   == RefsTo(draftRefs, pr.Number)
         IN /\ Len(inBlocked) + Len(inDraft) <= 1
            /\ Len(inBlocked) = (IF pr.IsBlocked THEN 1 ELSE 0)
            /\ Len(inDraft) = (IF pr.IsDraft /\ ~pr.IsBlocked THEN 1 ELSE 0)
            /\ pr.IsBlocked => (inBlocked[1].both <=> pr.IsDraft)

\* A report was posted with a PR that is blocked and draft, listed as such
\* in the blocked list, and another PR in the draft list.
C29_Witness ==
  /\ Len(Posts) = 1
  /\ \E i \in 1..Len(RefsOf(Posts[1].arg, "blocked")) :
       RefsOf(Posts[1].arg, "blocked")[i].both
  /\ Len(RefsOf(Posts[1].arg, "draft")) > 0

\* The modular enricher was given options of which the tracker URL, the
\* user name or the API token is empty.
OptionIncomplete ==
  /\ prog = "middletier" /\ DOMAIN jiraOpts # {}
  /\ (jiraOpts.URL = "" \/ jiraOpts.Username = "" \/ jiraOpts.APIToken = "")

====
